---- MODULE Spec2Model ----
(***************************************************************************)
(* State-machine model of nannyml's multivariate data-reconstruction drift *)
(* calculator (DataReconstructionDriftCalculator), its result object and   *)
(* the plot entry point.                                                   *)
(*                                                                         *)
(* Numbers: every float of the program is a fixed-point integer here.     *)
(* A chunk's reconstruction error is kept in units of 1/Resolution, and    *)
(* the two alert thresholds are kept exactly, as mean + k*std with the    *)
(* mean and the variance as integer fractions, so that every comparison   *)
(* the code makes (>, <) is decided exactly.                               *)
(***************************************************************************)
EXTENDS Integers, Sequences, FiniteSets, TLC

VARIABLES
    calc,       \* the calculator object: its fields, named as in the source
    result,     \* the result object the caller holds (None before the first)
    last,       \* the call made last: operation, argument, exception raised
    reference   \* the dataset of the last fit that returned (None before)

vars == <<calc, result, last, reference>>

-----------------------------------------------------------------------------
(* Bounds and inputs *)

MaxRows == 5
ChunkSize == 2
Resolution == 3 * 4

None == [none |-> TRUE]
NaN == 0 - 1
Values == {0, 1, 2, 3}

\* Constructor arguments
feature_column_names == <<"f1", "f2">>
timestamp_column_name == "timestamp"
n_components == 1

FeatureSet == {feature_column_names[i] : i \in DOMAIN feature_column_names}

-----------------------------------------------------------------------------
(* Small helpers *)

RECURSIVE SeqSum(_)
SeqSum(s) == IF s = <<>> THEN 0 ELSE Head(s) + SeqSum(Tail(s))

Min(a, b) == IF a < b THEN a ELSE b

Abs(a) == IF a < 0 THEN 0 - a ELSE a

\* integer square root (floor)
ISqrt(n) == CHOOSE r \in 0..n : r * r <= n /\ (r + 1) * (r + 1) > n

NoException == [type |-> "none", detail |-> <<>>]
Raise(type, detail) == [type |-> type, detail |-> detail]

\* the exceptions the calculator's own statements raise
NoRows == Raise("InvalidArgumentsException", <<"data contains no rows">>)
MissingColumns(missing) == Raise("InvalidArgumentsException", missing)
\* a list indexed with a boolean array
ListIndex == Raise("TypeError", <<"only integer scalar arrays can be converted to a scalar index">>)
\* a float compared with None
NoneCompared == Raise("TypeError", <<"'>' not supported between 'float' and 'NoneType'">>)
\* a column of None assigned
NoneAssigned == Raise("TypeError", <<"'NoneType' object does not support item assignment">>)
UnknownPlotKind(kind) == Raise("InvalidArgumentsException", <<"unknown plot kind", kind>>)

-----------------------------------------------------------------------------
(* Datasets: a table with named, typed columns and ordered rows *)

Row(t, p, a, b) == [ts |-> t, period |-> p, x |-> [f \in FeatureSet |-> IF f = "f1" THEN a ELSE b]]

DataFrame(cols, dtypes, rows) == [columns |-> cols, dtypes |-> dtypes, rows |-> rows]

AllFloat == [f \in FeatureSet |-> "float64"]
AllObject == [f \in FeatureSet |-> "object"]
Mixed == [f \in FeatureSet |-> IF f = "f1" THEN "float64" ELSE "object"]

\* continuous features, reference period throughout
StreamA == DataFrame(FeatureSet \cup {"timestamp"}, AllFloat,
    << Row(1, "reference", 0, 0), Row(2, "reference", 0, 1), Row(3, "reference", 1, 1),
       Row(4, "reference", 2, 0), Row(5, "reference", 1, 2), Row(6, "reference", 0, 0) >>)

\* one continuous and one categorical feature, missing values, both periods
StreamB == DataFrame(FeatureSet \cup {"timestamp"}, Mixed,
    << Row(1, "reference", 1, 0), Row(2, "reference", NaN, 0), Row(3, "reference", 1, 1),
       Row(4, "analysis", 0, 1), Row(5, "analysis", 2, NaN), Row(6, "analysis", 1, 1) >>)

\* continuous features, analysis period, values the reference period lacks
StreamE == DataFrame(FeatureSet \cup {"timestamp"}, AllFloat,
    << Row(7, "analysis", 2, 3), Row(8, "analysis", 1, 3), Row(9, "analysis", 0, 0),
       Row(10, "analysis", 0, 1), Row(11, "analysis", 3, 3), Row(12, "analysis", 2, 3) >>)

\* categorical features, every row the same
StreamC == DataFrame(FeatureSet \cup {"timestamp"}, AllObject,
    << Row(1, "analysis", 1, 1), Row(2, "analysis", 1, 1), Row(3, "analysis", 1, 1),
       Row(4, "analysis", 1, 1), Row(5, "analysis", 1, 1), Row(6, "analysis", 1, 1) >>)

\* a table without the column f2
StreamD == DataFrame({"f1", "timestamp"}, AllFloat,
    << Row(1, "reference", 0, 0), Row(2, "reference", 1, 0), Row(3, "reference", 2, 0),
       Row(4, "reference", 0, 0), Row(5, "reference", 1, 0), Row(6, "reference", 2, 0) >>)

Take(df, k) == [df EXCEPT !.rows = SubSeq(df.rows, 1, Min(k, Len(df.rows)))]

\* one chunk, several chunks, no rows, a column missing
Datasets ==
    {Take(s, k) : s \in {StreamA, StreamB}, k \in {ChunkSize, MaxRows}}
        \cup {Take(StreamE, MaxRows), Take(StreamC, MaxRows),
              Take(StreamA, 0), Take(StreamD, MaxRows)}

-----------------------------------------------------------------------------
(* nannyml.chunk.Chunker: a count-based chunker of chunk_size rows.  Chunks *)
(* are contiguous, ordered and cover every row once; a chunk whose rows     *)
(* span both periods is a transition chunk.                                 *)

chunk_size == ChunkSize

NumChunks(n) == (n + chunk_size - 1) \div chunk_size

Chunk(data, i) ==
    LET lo == (i - 1) * chunk_size + 1
        hi == Min(i * chunk_size, Len(data.rows))
        rows == SubSeq(data.rows, lo, hi)
        periods == {rows[j].period : j \in 1..Len(rows)}
    IN  [key |-> <<lo - 1, hi - 1>>,
         start_index |-> lo - 1,
         end_index |-> hi - 1,
         start_datetime |-> rows[1].ts,
         end_datetime |-> rows[Len(rows)].ts,
         period |-> rows[1].period,
         is_transition |-> Cardinality(periods) > 1,
         data |-> rows]

Chunker_split(data, columns, minimum_chunk_size, timestamp_column) ==
    [i \in 1..NumChunks(Len(data.rows)) |-> Chunk(data, i)]

(* nannyml.base._split_features_by_type: features by the dtype of their column *)
IsContinuous(data, f) == data.dtypes[f] = "float64"

_split_features_by_type(data, names) ==
    <<SelectSeq(names, LAMBDA f : IsContinuous(data, f)),
      SelectSeq(names, LAMBDA f : ~IsContinuous(data, f))>>

-----------------------------------------------------------------------------
(* The fitted estimators, by the parameters they learn *)

Count(rows, f, v) == Cardinality({i \in 1..Len(rows) : rows[i].x[f] = v})

Present(rows, f) == SelectSeq([i \in 1..Len(rows) |-> rows[i].x[f]], LAMBDA v : v # NaN)

MostFrequent(rows, f) ==
    IF Present(rows, f) = <<>> THEN NaN
    ELSE CHOOSE v \in Values :
            /\ Count(rows, f, v) > 0
            /\ \A w \in Values : \/ Count(rows, f, w) < Count(rows, f, v)
                                 \/ (Count(rows, f, w) = Count(rows, f, v) /\ v <= w)

MeanOf(rows, f) ==
    IF Present(rows, f) = <<>> THEN NaN
    ELSE SeqSum(Present(rows, f)) \div Len(Present(rows, f))

\* SimpleImputer(missing_values=np.nan, strategy=...)
SimpleImputer(strategy) == [strategy |-> strategy, fitted |-> FALSE, statistics_ |-> <<>>]

\* the median: the middle of the sorted values, the mean of the two middle ones
MedianOf(rows, f) ==
    IF Present(rows, f) = <<>> THEN NaN
    ELSE LET p == Present(rows, f)
             n == Len(p)
             \* the k-th smallest value
             Kth(k) == CHOOSE v \in Values :
                          /\ Cardinality({i \in 1..n : p[i] < v}) < k
                          /\ Cardinality({i \in 1..n : p[i] <= v}) >= k
         IN  (Kth((n + 1) \div 2) + Kth((n + 2) \div 2)) \div 2

\* strategy='constant' with the default fill_value
fill_value == 0

SimpleImputer_fit(imputer, rows, cols) ==
    [imputer EXCEPT !.fitted = TRUE,
                    !.statistics_ = [i \in 1..Len(cols) |->
                        IF imputer.strategy = "mean" THEN MeanOf(rows, cols[i])
                        ELSE IF imputer.strategy = "median" THEN MedianOf(rows, cols[i])
                        ELSE IF imputer.strategy = "constant" THEN fill_value
                        ELSE MostFrequent(rows, cols[i])]]

Impute(imputer, row, cols) ==
    [row EXCEPT !.x = [f \in FeatureSet |->
        IF row.x[f] = NaN /\ \E i \in 1..Len(cols) : cols[i] = f
        THEN imputer.statistics_[CHOOSE i \in 1..Len(cols) : cols[i] = f]
        ELSE row.x[f]]]

SimpleImputer_transform(imputer, rows, cols) ==
    IF ~imputer.fitted THEN [raised |-> Raise("NotFittedError", <<>>), value |-> rows]
    ELSE IF rows = <<>> \/ Len(cols) # Len(imputer.statistics_)
         THEN [raised |-> Raise("ValueError", <<>>), value |-> rows]
    ELSE [raised |-> NoException,
          value |-> [i \in 1..Len(rows) |-> Impute(imputer, rows[i], cols)]]

\* CountEncoder(cols=..., normalize=True): value -> its share of the fitted rows
CountEncoder_fit(rows, cols) ==
    [cols |-> cols,
     n |-> Len(rows),
     mapping |-> [f \in FeatureSet |-> [v \in Values \cup {NaN} |-> Count(rows, f, v)]]]

CountEncoder_transform(encoder, rows) ==
    [i \in 1..Len(rows) |->
        [rows[i] EXCEPT !.x = [f \in FeatureSet |-> encoder.mapping[f][rows[i].x[f]]]]]

\* StandardScaler: centres each feature on the mean of the fitted rows
StandardScaler_fit(rows) ==
    [n_samples_seen_ |-> Len(rows),
     mean_ |-> [f \in FeatureSet |-> SeqSum([i \in 1..Len(rows) |-> rows[i].x[f]])]]

StandardScaler_transform(scaler, rows) ==
    [i \in 1..Len(rows) |->
        [rows[i] EXCEPT !.x = [f \in FeatureSet |->
            scaler.n_samples_seen_ * rows[i].x[f] - scaler.mean_[f]]]]

\* PCA(n_components, random_state=16): keeps the n_components axes of most variance
Variance(rows, f) == SeqSum([i \in 1..Len(rows) |-> rows[i].x[f] * rows[i].x[f]])

Position(f) == CHOOSE i \in DOMAIN feature_column_names : feature_column_names[i] = f

PCA_fit(rows, k) ==
    [components_ |-> {f \in FeatureSet :
        Cardinality({g \in FeatureSet :
            \/ Variance(rows, g) > Variance(rows, f)
            \/ (Variance(rows, g) = Variance(rows, f) /\ Position(g) < Position(f))}) < k}]

PCA_transform(pca, row) == [f \in pca.components_ |-> row.x[f]]

PCA_inverse_transform(pca, reduced) ==
    [f \in FeatureSet |-> IF f \in pca.components_ THEN reduced[f] ELSE 0]

-----------------------------------------------------------------------------
(* calculator.py: the module-level functions *)

\* row-wise euclidian distance between preprocessed and reconstructed values
_calculate_distance(row, reconstructed) ==
    ISqrt(SeqSum([i \in DOMAIN feature_column_names |->
        LET f == feature_column_names[i]
        IN  (row.x[f] - reconstructed[f]) * (row.x[f] - reconstructed[f])]))

\* the mean of a column of distances, in units of 1/Resolution
ColumnMean(distances) == (SeqSum(distances) * Resolution) \div Len(distances)

Returned(value) == [raised |-> NoException, value |-> value]
Failed(exception) == [raised |-> exception, value |-> NaN]

\* lines 335-352: reduce, reconstruct, row-wise distance, mean
MeanDistance(pca, scaled) ==
    Returned(ColumnMean([i \in 1..Len(scaled) |->
        _calculate_distance(scaled[i],
            PCA_inverse_transform(pca, PCA_transform(pca, scaled[i])))]))

\* lines 330-333: encode, then scale all features
EncodeAndScale(encoder, scaler, pca, imputed) ==
    IF imputed.raised # NoException THEN Failed(imputed.raised)
    ELSE IF encoder = None \/ scaler = None \/ pca = None
    THEN Failed(Raise("AttributeError", <<>>))
    ELSE MeanDistance(pca,
            StandardScaler_transform(scaler, CountEncoder_transform(encoder, imputed.value)))

\* lines 327-328: impute the continuous features
ImputeContinuous(continuous, encoder, scaler, pca, imputer_continuous, data) ==
    IF data.raised # NoException THEN Failed(data.raised)
    ELSE EncodeAndScale(encoder, scaler, pca,
            IF Len(continuous) > 0
            THEN SimpleImputer_transform(imputer_continuous, data.value, continuous)
            ELSE data)

_calculate_reconstruction_error_for_data(names, categorical, continuous, data, encoder, scaler, pca, imputer_categorical, imputer_continuous) ==
    ImputeContinuous(continuous, encoder, scaler, pca, imputer_continuous,
        IF Len(categorical) > 0
        THEN SimpleImputer_transform(imputer_categorical, data, categorical)
        ELSE Returned(data))

\* int(20 * len(features) ** (5 / 6)): the largest m with m^6 <= 20^6 * len^5
_minimum_chunk_size(features) ==
    LET n == Len(features)
        K == 64000000 * n * n * n * n * n
    IN  CHOOSE m \in 0..(20 * n) :
            /\ (m = 0 \/ m * m * m <= K \div (m * m * m))
            /\ (m + 1) * (m + 1) * (m + 1) > K \div ((m + 1) * (m + 1) * (m + 1))

-----------------------------------------------------------------------------
(* pandas.Series.mean and .std (ddof = 1), and the thresholds built on them *)
(* mean = num/den; std = sqrt(num/den), not-a-number on fewer than 2 values *)

SeriesMean(s) == [num |-> SeqSum(s), den |-> Len(s)]

SeriesStd(s) ==
    LET n == Len(s)
        S == SeqSum(s)
        Q == SeqSum([i \in 1..n |-> s[i] * s[i]])
    IN  [num |-> n * Q - S * S, den |-> n * (n - 1)]

\* mean + k * std
Plus(mean, k, std) == [mean |-> mean, k |-> k, std |-> std]

IsNaN(t) == t.mean.den = 0 \/ t.std.den = 0

Sign(a) == IF a > 0 THEN 1 ELSE IF a < 0 THEN 0 - 1 ELSE 0

\* the sign of e - t, for a reconstruction error e and a threshold t that is a number
Compare(e, t) ==
    LET a == e * t.mean.den - t.mean.num
        A == a * a * t.std.den
        B == t.k * t.k * t.std.num * t.mean.den * t.mean.den
    IN  Sign(Sign(a) * A - Sign(t.k) * B)

Greater(e, t) == ~IsNaN(t) /\ Compare(e, t) > 0
Less(e, t) == ~IsNaN(t) /\ Compare(e, t) < 0

-----------------------------------------------------------------------------
(* DataReconstructionDriftCalculator *)

Table(rows) == [rows |-> rows]

\* isinstance(imputer, SimpleImputer)
IsSimpleImputer(imputer) == "strategy" \in DOMAIN imputer

\* as __init__, with no check of the imputers given
__init___unchecked(container, imputer_categorical, imputer_continuous) ==
    [raised |-> NoException,
     self |->
        [feature_column_names |-> [container |-> container, names |-> feature_column_names],
         continuous_feature_column_names |-> <<>>,
         categorical_feature_column_names |-> <<>>,
         timestamp_column_name |-> timestamp_column_name,
         _n_components |-> n_components,
         _scaler |-> None,
         _encoder |-> None,
         _pca |-> None,
         _upper_alert_threshold |-> None,
         _lower_alert_threshold |-> None,
         _imputer_categorical |-> IF imputer_categorical # None THEN imputer_categorical
                                  ELSE SimpleImputer("most_frequent"),
         _imputer_continuous |-> IF imputer_continuous # None THEN imputer_continuous
                                 ELSE SimpleImputer("mean"),
         previous_reference_results |-> None]]

\* the object constructed, None when the constructor raises
__init__(container, imputer_categorical, imputer_continuous) ==
    IF imputer_categorical # None /\ ~IsSimpleImputer(imputer_categorical)
    THEN [self |-> None,
          raised |-> Raise("TypeError", <<"imputer_categorical needs to be an instantiated SimpleImputer object.">>)]
    ELSE IF /\ imputer_categorical # None
            /\ imputer_categorical.strategy \notin {"most_frequent", "constant"}
    THEN [self |-> None,
          raised |-> Raise("ValueError", <<"Please use a SimpleImputer strategy appropriate for categorical features.">>)]
    ELSE IF imputer_continuous # None /\ ~IsSimpleImputer(imputer_continuous)
    THEN [self |-> None,
          raised |-> Raise("TypeError", <<"imputer_continuous needs to be an instantiated SimpleImputer object.">>)]
    ELSE [raised |-> NoException,
          self |->
            [feature_column_names |-> [container |-> container, names |-> feature_column_names],
             continuous_feature_column_names |-> <<>>,
             categorical_feature_column_names |-> <<>>,
             timestamp_column_name |-> timestamp_column_name,
             _n_components |-> n_components,
             _scaler |-> None,
             _encoder |-> None,
             _pca |-> None,
             _upper_alert_threshold |-> None,
             _lower_alert_threshold |-> None,
             _imputer_categorical |-> IF imputer_categorical # None THEN imputer_categorical
                                      ELSE SimpleImputer("most_frequent"),
             _imputer_continuous |-> IF imputer_continuous # None THEN imputer_continuous
                                     ELSE SimpleImputer("mean"),
             previous_reference_results |-> None]]

\* self.feature_column_names[~np.isin(self.feature_column_names, data.columns)]
missing_columns(self, data) ==
    SelectSeq(self.feature_column_names.names, LAMBDA f : f \notin data.columns)

ReconstructionErrors(self, chunks) ==
    [i \in DOMAIN chunks |->
        _calculate_reconstruction_error_for_data(
            self.feature_column_names.names,
            self.categorical_feature_column_names,
            self.continuous_feature_column_names,
            chunks[i].data,
            self._encoder, self._scaler, self._pca,
            self._imputer_categorical, self._imputer_continuous)]

\* the exception of the first chunk that raises, NoException when none does
FirstRaised(errors) ==
    IF \A i \in DOMAIN errors : errors[i].raised = NoException THEN NoException
    ELSE errors[CHOOSE i \in DOMAIN errors :
                    /\ errors[i].raised # NoException
                    /\ \A j \in 1..(i - 1) : errors[j].raised = NoException].raised

\* as _add_alert_flag, with >= and <= for > and <
_add_alert_flag_inclusive(drift_result, upper_threshold, lower_threshold) ==
    [i \in DOMAIN drift_result |->
        \/ (~IsNaN(upper_threshold)
            /\ Compare(drift_result[i].reconstruction_error, upper_threshold) >= 0)
        \/ (~IsNaN(lower_threshold)
            /\ Compare(drift_result[i].reconstruction_error, lower_threshold) <= 0)]

_add_alert_flag(drift_result, upper_threshold, lower_threshold) ==
    [i \in DOMAIN drift_result |->
        IF \/ Greater(drift_result[i].reconstruction_error, upper_threshold)
           \/ Less(drift_result[i].reconstruction_error, lower_threshold)
        THEN TRUE ELSE FALSE]

\* as _calculate_result, with the two threshold columns taking each other's value
_calculate_result_swapped(self, raised, res) ==
    IF raised # NoException
    THEN [self |-> self, value |-> None, raised |-> raised]
    ELSE IF self._upper_alert_threshold = None \/ self._lower_alert_threshold = None
    THEN [self |-> self, value |-> None, raised |-> NoneCompared]
    ELSE [self |-> self, raised |-> NoException,
          value |-> Table([i \in DOMAIN res |->
              [key |-> res[i].key,
               start_index |-> res[i].start_index,
               end_index |-> res[i].end_index,
               start_date |-> res[i].start_date,
               end_date |-> res[i].end_date,
               period |-> res[i].period,
               reconstruction_error |-> res[i].reconstruction_error,
               lower_threshold |-> self._upper_alert_threshold,
               upper_threshold |-> self._lower_alert_threshold,
               alert |-> _add_alert_flag(res, self._upper_alert_threshold,
                                         self._lower_alert_threshold)[i]]])]

\* lines 249-253: stamp the thresholds, flag the alerts
_calculate_result(self, raised, res) ==
    IF raised # NoException
    THEN [self |-> self, value |-> None, raised |-> raised]
    ELSE IF self._upper_alert_threshold = None \/ self._lower_alert_threshold = None
    THEN [self |-> self, value |-> None, raised |-> NoneCompared]
    ELSE [self |-> self, raised |-> NoException,
          value |-> Table([i \in DOMAIN res |->
              [key |-> res[i].key,
               start_index |-> res[i].start_index,
               end_index |-> res[i].end_index,
               start_date |-> res[i].start_date,
               end_date |-> res[i].end_date,
               period |-> res[i].period,
               reconstruction_error |-> res[i].reconstruction_error,
               lower_threshold |-> self._lower_alert_threshold,
               upper_threshold |-> self._upper_alert_threshold,
               alert |-> _add_alert_flag(res, self._upper_alert_threshold,
                                         self._lower_alert_threshold)[i]]])]

\* as _calculate_records, with the records in reverse chunk order
_calculate_records_reversed(self, chunks, errors) ==
    _calculate_result(self, FirstRaised(errors),
        [i \in DOMAIN chunks |->
            LET c == Len(chunks) + 1 - i
            IN  [key |-> chunks[c].key,
                 start_index |-> chunks[c].start_index,
                 end_index |-> chunks[c].end_index,
                 start_date |-> chunks[c].start_datetime,
                 end_date |-> chunks[c].end_datetime,
                 period |-> IF chunks[c].is_transition THEN "analysis" ELSE chunks[c].period,
                 reconstruction_error |-> errors[c].value]])

\* lines 224-247: one record per chunk
_calculate_records(self, chunks, errors) ==
    _calculate_result(self, FirstRaised(errors),
        [i \in DOMAIN chunks |->
            [key |-> chunks[i].key,
             start_index |-> chunks[i].start_index,
             end_index |-> chunks[i].end_index,
             start_date |-> chunks[i].start_datetime,
             end_date |-> chunks[i].end_datetime,
             period |-> IF chunks[i].is_transition THEN "analysis" ELSE chunks[i].period,
             reconstruction_error |-> errors[i].value]])

\* lines 217-222: split the data into chunks
_calculate_chunks(self, chunks) ==
    _calculate_records(self, chunks, ReconstructionErrors(self, chunks))

\* as _calculate_split, with the split of fit-time kept
_calculate_split_cached(self, data, split) ==
    _calculate_chunks(self,
        Chunker_split(data, self.feature_column_names.names,
            _minimum_chunk_size(self.feature_column_names.names),
            self.timestamp_column_name))

\* lines 213-215: the feature split is taken from the data passed
_calculate_split(self, data, split) ==
    _calculate_chunks(
        [self EXCEPT !.continuous_feature_column_names = split[1],
                     !.categorical_feature_column_names = split[2]],
        Chunker_split(data, self.feature_column_names.names,
            _minimum_chunk_size(self.feature_column_names.names),
            self.timestamp_column_name))

\* lines 209-211
_calculate_missing(self, data, missing) ==
    IF Len(missing) > 0
    THEN [self |-> self, value |-> None, raised |-> MissingColumns(missing)]
    ELSE _calculate_split(self, data,
            _split_features_by_type(data, self.feature_column_names.names))

\* as _calculate, without the check for rows
_calculate_unchecked(self, data) ==
    IF self.feature_column_names.container = "list"
    THEN [self |-> self, value |-> None, raised |-> ListIndex]
    ELSE _calculate_missing(self, data, missing_columns(self, data))

_calculate(self, data) ==
    IF data.rows = <<>>
    THEN [self |-> self, value |-> None, raised |-> NoRows]
    ELSE IF self.feature_column_names.container = "list"
    THEN [self |-> self, value |-> None, raised |-> ListIndex]
    ELSE _calculate_missing(self, data, missing_columns(self, data))

\* as ThresholdsOf, with 2 std for 3
ThresholdsOf_two_sigma(errors) ==
    IF FirstRaised(errors) # NoException
    THEN [raised |-> FirstRaised(errors), value |-> <<None, None>>]
    ELSE [raised |-> NoException,
          value |-> << Plus(SeriesMean([i \in DOMAIN errors |-> errors[i].value]), 2,
                            SeriesStd([i \in DOMAIN errors |-> errors[i].value])),
                       Plus(SeriesMean([i \in DOMAIN errors |-> errors[i].value]), 0 - 2,
                            SeriesStd([i \in DOMAIN errors |-> errors[i].value])) >>]

ThresholdsOf(errors) ==
    IF FirstRaised(errors) # NoException
    THEN [raised |-> FirstRaised(errors), value |-> <<None, None>>]
    ELSE [raised |-> NoException,
          value |-> << Plus(SeriesMean([i \in DOMAIN errors |-> errors[i].value]), 3,
                            SeriesStd([i \in DOMAIN errors |-> errors[i].value])),
                       Plus(SeriesMean([i \in DOMAIN errors |-> errors[i].value]), 0 - 3,
                            SeriesStd([i \in DOMAIN errors |-> errors[i].value])) >>]

_calculate_alert_thresholds(self, reference_data) ==
    ThresholdsOf(ReconstructionErrors(self,
        Chunker_split(reference_data, self.timestamp_column_name, None, None)))

\* an argument of a call, by its type; Omitted when the call does not pass it
IntArg(n) == [kind |-> "int", int |-> n, str |-> "", names |-> <<>>]
StrArg(s) == [kind |-> "str", int |-> 0, str |-> s, names |-> <<>>]
NamesArg(names) == [kind |-> "names", int |-> 0, str |-> "", names |-> names]
Omitted == [kind |-> "omitted", int |-> 0, str |-> "", names |-> <<>>]

\* lines 217-222: what _calculate passes to chunker.split besides the data
calculate_split_arguments(self) ==
    [columns |-> NamesArg(self.feature_column_names.names),
     minimum_chunk_size |-> IntArg(_minimum_chunk_size(self.feature_column_names.names)),
     timestamp_column_name |-> StrArg(self.timestamp_column_name)]

\* line 256: what _calculate_alert_thresholds passes to chunker.split besides
\* the data: one positional argument, which takes the place of columns
thresholds_split_arguments(self) ==
    [columns |-> StrArg(self.timestamp_column_name),
     minimum_chunk_size |-> Omitted,
     timestamp_column_name |-> Omitted]

\* line 174: the reference snapshot is the table of _calculate(reference_data)
_fit_snapshot(calculated) ==
    IF calculated.raised # NoException
    THEN [self |-> calculated.self, raised |-> calculated.raised]
    ELSE [self |-> [calculated.self EXCEPT !.previous_reference_results = calculated.value],
          raised |-> NoException]

\* line 172: the thresholds are stored
_fit_thresholds(self, reference_data, thresholds) ==
    IF thresholds.raised # NoException
    THEN [self |-> self, raised |-> thresholds.raised]
    ELSE _fit_snapshot(_calculate(
            [self EXCEPT !._upper_alert_threshold = thresholds.value[1],
                         !._lower_alert_threshold = thresholds.value[2]],
            reference_data))

\* lines 167-172
_fit_store(self, reference_data) ==
    _fit_thresholds(self, reference_data, _calculate_alert_thresholds(self, reference_data))

\* lines 159-169: scaler and reduction model, fitted on the encoded reference data
_fit_scale(self, reference_data, encoder, scaler, encoded_reference_data) ==
    _fit_store(
        [self EXCEPT !._encoder = encoder,
                     !._scaler = scaler,
                     !._pca = PCA_fit(StandardScaler_transform(scaler, encoded_reference_data),
                                      self._n_components)],
        reference_data)

\* lines 153-157: the encoder, fitted on the imputed reference data
_fit_encode(self, reference_data, encoder, encoded_reference_data) ==
    _fit_scale(self, reference_data, encoder, StandardScaler_fit(encoded_reference_data),
               encoded_reference_data)

_fit_encoder(self, reference_data, imputed_reference_data, encoder) ==
    _fit_encode(self, reference_data, encoder,
                CountEncoder_transform(encoder, imputed_reference_data))

\* lines 143-151: the imputers transform the data they were just fitted on
ImputedCategorical(self, rows) ==
    IF Len(self.categorical_feature_column_names) > 0
    THEN SimpleImputer_transform(self._imputer_categorical, rows,
                                 self.categorical_feature_column_names).value
    ELSE rows

ImputedReference(self, rows) ==
    IF Len(self.continuous_feature_column_names) > 0
    THEN SimpleImputer_transform(self._imputer_continuous, rows,
                                 self.continuous_feature_column_names).value
    ELSE rows

_fit_impute(self, reference_data) ==
    _fit_encoder(self, reference_data,
        ImputedReference(self, ImputedCategorical(self, reference_data.rows)),
        CountEncoder_fit(
            ImputedReference(self, ImputedCategorical(self, reference_data.rows)),
            self.feature_column_names.names))

\* lines 138-151: the split is stored, the imputers of the features present are fitted
_fit_split(self, reference_data, split) ==
    _fit_impute(
        [self EXCEPT !.continuous_feature_column_names = split[1],
                     !.categorical_feature_column_names = split[2],
                     !._imputer_categorical =
                         IF Len(split[2]) > 0
                         THEN SimpleImputer_fit(@, reference_data.rows, split[2])
                         ELSE @,
                     !._imputer_continuous =
                         IF Len(split[1]) > 0
                         THEN SimpleImputer_fit(@, reference_data.rows, split[1])
                         ELSE @],
        reference_data)

\* lines 134-136
_fit_missing(self, reference_data, missing) ==
    IF Len(missing) > 0
    THEN [self |-> self, raised |-> MissingColumns(missing)]
    ELSE _fit_split(self, reference_data,
            _split_features_by_type(reference_data, self.feature_column_names.names))

_fit(self, reference_data) ==
    IF reference_data.rows = <<>>
    THEN [self |-> self, raised |-> NoRows]
    ELSE IF self.feature_column_names.container = "list"
    THEN [self |-> self, raised |-> ListIndex]
    ELSE _fit_missing(self, reference_data, missing_columns(self, reference_data))

-----
(* DataReconstructionDriftCalculatorResult *)

Result(results_data) == [data |-> results_data]

SetPeriod(table, period) ==
    Table([i \in DOMAIN table.rows |-> [table.rows[i] EXCEPT !.period = period]])

\* the result's table and the calculator's snapshot after the call, and what it raised
_plot_drift(data, calculator, plot_reference) ==
    IF ~plot_reference
    THEN [data |-> SetPeriod(data, "analysis"), calculator |-> calculator,
          raised |-> NoException]
    ELSE IF calculator.previous_reference_results = None
    THEN [data |-> SetPeriod(data, "analysis"), calculator |-> calculator,
          raised |-> NoneAssigned]
    ELSE [data |-> SetPeriod(data, "analysis"),
          calculator |-> [calculator EXCEPT !.previous_reference_results =
                              SetPeriod(calculator.previous_reference_results, "reference")],
          raised |-> NoException]

\* as plot, with every kind drawn as the drift plot
plot_any_kind(self, calculator, kind, plot_reference) ==
    _plot_drift(self.data, calculator, plot_reference)

plot(self, calculator, kind, plot_reference) ==
    IF kind = "drift"
    THEN _plot_drift(self.data, calculator, plot_reference)
    ELSE [data |-> self.data, calculator |-> calculator,
          raised |-> UnknownPlotKind(kind)]

-----------------------------------------------------------------------------
(* The state machine: a caller constructs one calculator and then calls    *)
(* fit, calculate and plot in any order, with any dataset.                 *)

Call(op, data, kind, plot_reference, raised) ==
    [op |-> op, data |-> data, kind |-> kind, plot_reference |-> plot_reference,
     raised |-> raised]

Containers == {"list", "ndarray"}
PlotKinds == {"drift", "feature_drift"}

Init ==
    /\ \E container \in Containers : calc = __init__(container, None, None).self
    /\ result = None
    /\ last = Call("__init__", None, "", FALSE, NoException)
    /\ reference = None

Fit(d) ==
    LET r == _fit(calc, d)
    IN  /\ calc' = r.self
        /\ last' = Call("fit", d, "", FALSE, r.raised)
        /\ reference' = IF r.raised = NoException THEN d ELSE reference
        /\ UNCHANGED result

Calculate(d) ==
    LET r == _calculate(calc, d)
    IN  /\ calc' = r.self
        /\ last' = Call("calculate", d, "", FALSE, r.raised)
        /\ result' = IF r.raised = NoException THEN Result(r.value) ELSE result
        /\ UNCHANGED reference

Plot(kind, plot_reference) ==
    /\ result # None
    /\ LET r == plot(result, calc, kind, plot_reference)
       IN  /\ calc' = r.calculator
           /\ result' = Result(r.data)
           /\ last' = Call("plot", None, kind, plot_reference, r.raised)
    /\ UNCHANGED reference

Next ==
    \/ \E d \in Datasets : Fit(d)
    \/ \E d \in Datasets : Calculate(d)
    \/ \E kind \in PlotKinds, plot_reference \in BOOLEAN : Plot(kind, plot_reference)

Spec == Init /\ [][Next]_vars

-----------------------------------------------------------------------------
(* The constructor with imputers given by the caller: the calculator is    *)
(* constructed with any imputer arguments and then fitted.                 *)

Strategies == {"mean", "median", "most_frequent", "constant"}

\* None, a SimpleImputer of any strategy, or an estimator of another class
ImputerArguments ==
    {None, [class |-> "StandardScaler"]} \cup {SimpleImputer(strategy) : strategy \in Strategies}

Arguments(container, imputer_categorical, imputer_continuous) ==
    [container |-> container, imputer_categorical |-> imputer_categorical,
     imputer_continuous |-> imputer_continuous]

InitConstruct ==
    \E container \in Containers, imputer_categorical \in ImputerArguments,
       imputer_continuous \in ImputerArguments :
        LET r == __init__(container, imputer_categorical, imputer_continuous)
        IN  /\ calc = r.self
            /\ result = None
            /\ last = Call("__init__",
                           Arguments(container, imputer_categorical, imputer_continuous),
                           "", FALSE, r.raised)
            /\ reference = None

FitConstructed(d) == calc # None /\ Fit(d)

NextConstruct == \E d \in Datasets : FitConstructed(d)

SpecConstruct == InitConstruct /\ [][NextConstruct]_vars

-----------------------------------------------------------------------------
(* TargetDistributionCalculator: the distribution of the target column per *)
(* chunk, compared with the targets of the reference data.  Its state      *)
(* machine uses the same variables: calc is the calculator, result the     *)
(* result held, last the call made last, reference the dataset of the last *)
(* fit that returned.                                                      *)

y_true == "y_true"

TargetMinimumChunkSize == 300

\* _ALERT_THRESHOLD_P_VALUE = 0.05
_ALERT_THRESHOLD_P_VALUE == [num |-> 5, den |-> 100]

NotANumber == [num |-> 0, den |-> 0]

TargetRow(t, p, y) == [ts |-> t, period |-> p, y |-> y]

TargetFrame(cols, dtype, rows) == [columns |-> cols, dtype |-> dtype, rows |-> rows]

\* binary targets of the reference period
TargetsA == TargetFrame({"y_true", "timestamp"}, "float64",
    << TargetRow(1, "reference", 0), TargetRow(2, "reference", 1),
       TargetRow(3, "reference", 1), TargetRow(4, "reference", 0),
       TargetRow(5, "reference", 1), TargetRow(6, "reference", 1) >>)

\* three distinct targets in the first rows, a missing target later
TargetsB == TargetFrame({"y_true", "timestamp"}, "float64",
    << TargetRow(7, "analysis", 0), TargetRow(8, "analysis", 1),
       TargetRow(9, "analysis", 2), TargetRow(10, "analysis", 1),
       TargetRow(11, "analysis", 1), TargetRow(12, "analysis", NaN) >>)

\* no target in the first rows
TargetsC == TargetFrame({"y_true", "timestamp"}, "float64",
    << TargetRow(1, "reference", NaN), TargetRow(2, "reference", NaN),
       TargetRow(3, "reference", NaN), TargetRow(4, "reference", NaN),
       TargetRow(5, "reference", 1), TargetRow(6, "reference", 0) >>)

\* targets held as strings
TargetsD == TargetFrame({"y_true", "timestamp"}, "object",
    << TargetRow(7, "analysis", 0), TargetRow(8, "analysis", 1),
       TargetRow(9, "analysis", 1), TargetRow(10, "analysis", 0),
       TargetRow(11, "analysis", 1), TargetRow(12, "analysis", 0) >>)

\* a table without the target column
TargetsE == TargetFrame({"timestamp"}, "float64",
    << TargetRow(7, "analysis", 0), TargetRow(8, "analysis", 1),
       TargetRow(9, "analysis", 1), TargetRow(10, "analysis", 0),
       TargetRow(11, "analysis", 1), TargetRow(12, "analysis", 0) >>)

\* the chunker of this calculator: chunks large enough for three distinct targets
target_chunk_size == ChunkSize + 1

\* one chunk, several chunks, no rows, the target column missing
TargetDatasets ==
    {Take(s, k) : s \in {TargetsA, TargetsB, TargetsC}, k \in {target_chunk_size, MaxRows}}
        \cup {Take(TargetsD, MaxRows), Take(TargetsE, MaxRows), Take(TargetsA, 0)}

TargetNumChunks(n) == (n + target_chunk_size - 1) \div target_chunk_size

TargetChunk(data, i) ==
    LET lo == (i - 1) * target_chunk_size + 1
        hi == Min(i * target_chunk_size, Len(data.rows))
        rows == SubSeq(data.rows, lo, hi)
        periods == {rows[j].period : j \in 1..Len(rows)}
    IN  [key |-> <<lo - 1, hi - 1>>,
         start_index |-> lo - 1,
         end_index |-> hi - 1,
         start_datetime |-> rows[1].ts,
         end_datetime |-> rows[Len(rows)].ts,
         period |-> rows[1].period,
         is_transition |-> Cardinality(periods) > 1,
         data |-> rows]

TargetChunker_split(data, columns, minimum_chunk_size, timestamp_column) ==
    [i \in 1..TargetNumChunks(Len(data.rows)) |-> TargetChunk(data, i)]

\* the column y_true of a table, as a series
Series(dtype, rows) == [dtype |-> dtype, values |-> [i \in 1..Len(rows) |-> rows[i].y]]

NotMissing(values) == SelectSeq(values, LAMBDA v : v # NaN)

\* Series.nunique(): the distinct values, missing ones left out
nunique(targets) ==
    Cardinality({NotMissing(targets.values)[i] : i \in DOMAIN NotMissing(targets.values)})

\* Series.value_counts() of one value
value_count(targets, v) ==
    Cardinality({i \in DOMAIN targets.values : targets.values[i] = v})

\* Series.mean(): missing values are left out; not a number when none is left
mean(targets) ==
    [num |-> SeqSum(NotMissing(targets.values)), den |-> Len(NotMissing(targets.values))]

\* pd.concat([reference_targets.value_counts(), targets.value_counts()], axis=1).fillna(0)
Contingency(reference_targets, targets) ==
    [v \in {NotMissing(reference_targets.values)[i] : i \in DOMAIN NotMissing(reference_targets.values)}
            \cup {NotMissing(targets.values)[i] : i \in DOMAIN NotMissing(targets.values)}
        |-> <<value_count(reference_targets, v), value_count(targets, v)>>]

\* scipy.stats.chi2_contingency: raises on a table without cells and on one with
\* an expected frequency of zero (here: a column of zeros).  The statistic and
\* the p-value are functions of the table, which stands for them.
chi2_contingency(observed) ==
    IF DOMAIN observed = {}
    THEN [raised |-> Raise("ValueError", <<"No data; observed has size 0.">>),
          statistic |-> observed]
    ELSE IF \E j \in 1..2 : \A v \in DOMAIN observed : observed[v][j] = 0
    THEN [raised |-> Raise("ValueError", <<"The internally computed table of expected frequencies has a zero element">>),
          statistic |-> observed]
    ELSE [raised |-> NoException, statistic |-> observed]

NonBinaryWarning(n) == [category |-> "UserWarning", message |-> "more than 2 unique values", nunique |-> n]
StringWarning == [category |-> "UserWarning", message |-> "non-numerical values", nunique |-> 0]

\* lines 175-199, with the result of chi2_contingency
_calculate_target_drift(chi2, targets) ==
    IF chi2.raised # NoException
    THEN [raised |-> chi2.raised, warnings |-> {}, value |-> None]
    ELSE [raised |-> NoException,
          warnings |-> (IF nunique(targets) > 2 THEN {NonBinaryWarning(nunique(targets))} ELSE {})
                       \cup (IF targets.dtype \in {"object", "string"} THEN {StringWarning} ELSE {}),
          value |-> [metric_target_drift |->
                         IF ~(nunique(targets) > 2 \/ targets.dtype \in {"object", "string"})
                         THEN mean(targets) ELSE NotANumber,
                     contingency |-> chi2.statistic,
                     thresholds |-> _ALERT_THRESHOLD_P_VALUE]]

\* as _calculate_target_drift_for_chunk, with more than two values an error
_calculate_target_drift_for_chunk_strict(reference_targets, targets) ==
    IF nunique(targets) > 2
    THEN [raised |-> Raise("ValueError", <<"more than 2 unique values">>),
          warnings |-> {}, value |-> None]
    ELSE _calculate_target_drift(chi2_contingency(Contingency(reference_targets, targets)),
                                 targets)

_calculate_target_drift_for_chunk(reference_targets, targets) ==
    _calculate_target_drift(chi2_contingency(Contingency(reference_targets, targets)), targets)

TargetDistributionCalculator__init__ ==
    [y_true |-> y_true,
     timestamp_column_name |-> timestamp_column_name,
     previous_reference_results |-> None,
     previous_reference_data |-> None,
     _minimum_chunk_size |-> TargetMinimumChunkSize]

NotFitted ==
    Raise("CalculatorNotFittedException", <<"no reference data known. Did you fit the calculator first?">>)

MissingTarget == Raise("InvalidArgumentsException", <<"target data column", y_true>>)

\* lines 147-167: one record per chunk; the warnings of all chunks
TargetDistributionCalculator_calculate_records(self, chunks, drifts) ==
    IF FirstRaised(drifts) # NoException
    THEN [self |-> self, value |-> None, warnings |-> {}, raised |-> FirstRaised(drifts)]
    ELSE [self |-> self, raised |-> NoException,
          warnings |-> UNION {drifts[i].warnings : i \in DOMAIN drifts},
          value |-> Table([i \in DOMAIN chunks |->
              [key |-> chunks[i].key,
               start_index |-> chunks[i].start_index,
               end_index |-> chunks[i].end_index,
               start_date |-> chunks[i].start_datetime,
               end_date |-> chunks[i].end_datetime,
               period |-> IF chunks[i].is_transition THEN "analysis" ELSE chunks[i].period,
               targets_missing_rate |->
                   [num |-> Len(chunks[i].data) - Len(NotMissing(Series("", chunks[i].data).values)),
                    den |-> Len(chunks[i].data)],
               metric_target_drift |-> drifts[i].value.metric_target_drift,
               contingency |-> drifts[i].value.contingency,
               thresholds |-> drifts[i].value.thresholds]])]

\* lines 145-161: the fitted check comes after the chunks are made
TargetDistributionCalculator_calculate_chunks(self, data, chunks) ==
    IF self.previous_reference_data = None
    THEN [self |-> self, value |-> None, warnings |-> {}, raised |-> NotFitted]
    ELSE TargetDistributionCalculator_calculate_records(self, chunks,
            [i \in DOMAIN chunks |->
                _calculate_target_drift_for_chunk(
                    Series(self.previous_reference_data.dtype, self.previous_reference_data.rows),
                    Series(data.dtype, chunks[i].data))])

TargetDistributionCalculator_calculate(self, data) ==
    IF data.rows = <<>>
    THEN [self |-> self, value |-> None, warnings |-> {}, raised |-> NoRows]
    ELSE IF self.y_true \notin data.columns
    THEN [self |-> self, value |-> None, warnings |-> {}, raised |-> MissingTarget]
    ELSE TargetDistributionCalculator_calculate_chunks(self, data,
            TargetChunker_split(data, <<self.y_true, "NML_TARGET_INCOMPLETE">>,
                                self._minimum_chunk_size, self.timestamp_column_name))

\* line 99: the results of the reference data are stored when _calculate returns
TargetDistributionCalculator_fit_results(calculated) ==
    IF calculated.raised # NoException
    THEN [self |-> calculated.self, raised |-> calculated.raised]
    ELSE [self |-> [calculated.self EXCEPT !.previous_reference_results = calculated.value],
          raised |-> NoException]

TargetDistributionCalculator_fit(self, reference_data) ==
    IF reference_data.rows = <<>>
    THEN [self |-> self, raised |-> NoRows]
    ELSE IF self.y_true \notin reference_data.columns
    THEN [self |-> self, raised |-> MissingTarget]
    ELSE TargetDistributionCalculator_fit_results(
            TargetDistributionCalculator_calculate(
                [self EXCEPT !.previous_reference_data = reference_data], reference_data))

TargetResult(results_data, warnings) == [data |-> results_data, warnings |-> warnings]

InitTarget ==
    /\ calc = TargetDistributionCalculator__init__
    /\ result = None
    /\ last = Call("__init__", None, "", FALSE, NoException)
    /\ reference = None

TargetFit(d) ==
    LET r == TargetDistributionCalculator_fit(calc, d)
    IN  /\ calc' = r.self
        /\ last' = Call("fit", d, "", FALSE, r.raised)
        /\ reference' = IF r.raised = NoException THEN d ELSE reference
        /\ UNCHANGED result

TargetCalculate(d) ==
    LET r == TargetDistributionCalculator_calculate(calc, d)
    IN  /\ calc' = r.self
        /\ last' = Call("calculate", d, "", FALSE, r.raised)
        /\ result' = IF r.raised = NoException THEN TargetResult(r.value, r.warnings)
                     ELSE result
        /\ UNCHANGED reference

NextTarget ==
    \/ \E d \in TargetDatasets : TargetFit(d)
    \/ \E d \in TargetDatasets : TargetCalculate(d)

SpecTarget == InitTarget /\ [][NextTarget]_vars

-----------------------------------------------------------------------------
(* Vocabulary of the properties *)

\* the dataset is not empty and holds every declared feature column
Valid(data) ==
    /\ data # None
    /\ data.rows # <<>>
    /\ \A i \in DOMAIN feature_column_names : feature_column_names[i] \in data.columns

Fitted == reference # None

\* the fitted artifacts, the thresholds and the reference snapshot of a calculator
Artifacts(self) ==
    <<self._encoder, self._scaler, self._pca,
      self._imputer_categorical, self._imputer_continuous,
      self._upper_alert_threshold, self._lower_alert_threshold,
      self.previous_reference_results>>

FeatureSplit(self) ==
    <<self.continuous_feature_column_names, self.categorical_feature_column_names>>

SplitOf(data) == _split_features_by_type(data, feature_column_names)

\* the tables a caller can see: the result held and the reference snapshot
VisibleRows ==
    (IF result = None THEN {} ELSE {result.data.rows[i] : i \in DOMAIN result.data.rows})
    \cup (IF calc.previous_reference_results = None THEN {}
          ELSE {calc.previous_reference_results.rows[i] :
                    i \in DOMAIN calc.previous_reference_results.rows})

\* the reconstruction errors of the chunks of the reference dataset, each scored
\* with the artifacts the calculator holds
ReferenceErrors ==
    LET errors == ReconstructionErrors(
            [calc EXCEPT !.continuous_feature_column_names = SplitOf(reference)[1],
                         !.categorical_feature_column_names = SplitOf(reference)[2]],
            Chunker_split(reference, feature_column_names,
                          _minimum_chunk_size(feature_column_names), timestamp_column_name))
    IN  [i \in DOMAIN errors |-> errors[i].value]

AllEqual(s) == \A i, j \in DOMAIN s : s[i] = s[j]

\* e > t and e < t for a threshold t = mean + k * std, decided on the integers
Above(e, t) ==
    LET a == e * t.mean.den - t.mean.num
        lhs == a * a * t.std.den
        rhs == t.k * t.k * t.std.num * t.mean.den * t.mean.den
    IN  /\ t.mean.den > 0 /\ t.std.den > 0
        /\ IF t.k >= 0 THEN a > 0 /\ lhs > rhs
           ELSE a > 0 \/ (a = 0 /\ rhs > 0) \/ (a < 0 /\ lhs < rhs)

Below(e, t) ==
    LET a == e * t.mean.den - t.mean.num
        lhs == a * a * t.std.den
        rhs == t.k * t.k * t.std.num * t.mean.den * t.mean.den
    IN  /\ t.mean.den > 0 /\ t.std.den > 0
        /\ IF t.k <= 0 THEN a < 0 /\ lhs > rhs
           ELSE a < 0 \/ (a = 0 /\ rhs > 0) \/ (a > 0 /\ lhs < rhs)

\* upper > lower for two thresholds around one mean with one std
Wider(upper, lower) ==
    /\ upper.mean = lower.mean /\ upper.std = lower.std
    /\ upper.mean.den > 0 /\ upper.std.den > 0
    /\ upper.k > lower.k /\ upper.std.num > 0

CalculateReturned == last.op = "calculate" /\ last.raised = NoException

-----------------------------------------------------------------------------
(* C1: calculate on a calculator that was never fitted raises the          *)
(* not-fitted error and leaves every field of the calculator as it was.    *)
(* Stated for the case the claim singles out: a non-empty dataset that     *)
(* holds every feature column.                                             *)
C1_UnfittedCalculateKeepsState ==
    [][(/\ ~Fitted
        /\ calc.feature_column_names.container = "ndarray"
        /\ last'.op = "calculate"
        /\ Valid(last'.data))
       => (/\ last'.raised.type \in {"CalculatorNotFittedException", "NotFittedError"}
           /\ calc' = calc)]_vars

(* C2: every row of a table returned by calculate carries the two          *)
(* thresholds the calculator stores (those of its fit), and upper > lower  *)
(* whenever the reference chunks' reconstruction errors are not all equal. *)
C2_ThresholdsStamped ==
    CalculateReturned =>
        \A i \in DOMAIN result.data.rows :
            /\ result.data.rows[i].upper_threshold = calc._upper_alert_threshold
            /\ result.data.rows[i].lower_threshold = calc._lower_alert_threshold
            /\ result.data.rows[i].upper_threshold =
                   Plus(SeriesMean(ReferenceErrors), 3, SeriesStd(ReferenceErrors))
            /\ result.data.rows[i].lower_threshold =
                   Plus(SeriesMean(ReferenceErrors), 0 - 3, SeriesStd(ReferenceErrors))
            /\ (~AllEqual(ReferenceErrors) =>
                   Wider(result.data.rows[i].upper_threshold,
                         result.data.rows[i].lower_threshold))

C2_Witness ==
    /\ CalculateReturned
    /\ last.data # reference
    /\ Len(result.data.rows) > 1
    /\ ~AllEqual(ReferenceErrors)

OnThreshold(e, t) ==
    /\ t.mean.den > 0 /\ t.std.den > 0
    /\ ~Above(e, t) /\ ~Below(e, t)

C4_MissingColumnsNamed ==
    (last.op \in {"fit", "calculate"} /\ last.data.rows # <<>>) =>
        LET missing == SelectSeq(feature_column_names, LAMBDA f : f \notin last.data.columns)
        IN  IF missing # <<>>
            THEN last.raised = Raise("InvalidArgumentsException", missing)
            ELSE last.raised.type # "InvalidArgumentsException" /\ last.raised # ListIndex

(* C5: fit and calculate raise the data-validation error on a dataset      *)
(* without rows before anything else runs: the calculator is unchanged.    *)
C5_EmptyDataRejectedFirst ==
    [][(last'.op \in {"fit", "calculate"} /\ last'.data.rows = <<>>)
       => (last'.raised = NoRows /\ calc' = calc /\ result' = result)]_vars

C5_Witness ==
    /\ Fitted
    /\ last.op = "fit"
    /\ last.data.rows = <<>>
    /\ last.raised = NoRows
    /\ FeatureSplit(calc) # SplitOf(last.data)

(* C6: the stored thresholds are mean + 3 std and mean - 3 std of the      *)
(* reconstruction errors of the reference chunks, scored with the          *)
(* artifacts fitted on the whole reference set; only fit assigns them.     *)
C6_ThresholdsFromReference ==
    /\ Fitted =>
        /\ calc._upper_alert_threshold =
               Plus(SeriesMean(ReferenceErrors), 3, SeriesStd(ReferenceErrors))
        /\ calc._lower_alert_threshold =
               Plus(SeriesMean(ReferenceErrors), 0 - 3, SeriesStd(ReferenceErrors))
    /\ ~Fitted =>
        /\ calc._upper_alert_threshold = None
        /\ calc._lower_alert_threshold = None

C6_Witness ==
    /\ Fitted
    /\ CalculateReturned
    /\ last.data # reference
    /\ Len(ReferenceErrors) > 2
    /\ ~AllEqual(ReferenceErrors)

(* C7: calculate on a fitted calculator leaves the encoder, the scaler,    *)
(* the reduction model, the imputers, the thresholds and the snapshot      *)
(* alone and changes no field but the feature split; after a call on a     *)
(* dataset with rows and every feature column the split is the one         *)
(* inferred from that dataset, whatever the split of fit-time was (a call  *)
(* the validation rejects changes nothing at all).                         *)
C7_SplitFromValidData ==
    [][(Fitted /\ last'.op = "calculate")
       => (/\ Artifacts(calc') = Artifacts(calc)
           /\ [calc' EXCEPT !.continuous_feature_column_names = <<>>,
                            !.categorical_feature_column_names = <<>>]
              = [calc EXCEPT !.continuous_feature_column_names = <<>>,
                             !.categorical_feature_column_names = <<>>]
           /\ FeatureSplit(calc') = IF Valid(last'.data) THEN SplitOf(last'.data)
                                    ELSE FeatureSplit(calc))]_vars

C7_Witness ==
    /\ Fitted
    /\ CalculateReturned
    /\ FeatureSplit(calc) = SplitOf(last.data)
    /\ FeatureSplit(calc) # SplitOf(reference)

(* C8: calculate on the reference dataset returns a table equal to the     *)
(* stored reference snapshot, also after other calculate and plot calls.   *)
C8_ReferenceReproduced ==
    (CalculateReturned /\ last.data = reference) =>
        result.data = calc.previous_reference_results

(* C9: the table returned by calculate has one row per chunk of the        *)
(* chunker, the i-th row carrying the key, index range, date range and     *)
(* reconstruction error of the i-th chunk, in the chunker's order.         *)
C9_OneRowPerChunk ==
    CalculateReturned =>
        LET chunks == Chunker_split(last.data, feature_column_names,
                          _minimum_chunk_size(feature_column_names), timestamp_column_name)
            errors == ReconstructionErrors(calc, chunks)
            rows == result.data.rows
        IN  /\ Len(rows) = Len(chunks)
            /\ \A i \in DOMAIN rows :
                /\ rows[i].key = chunks[i].key
                /\ rows[i].start_index = chunks[i].start_index
                /\ rows[i].end_index = chunks[i].end_index
                /\ rows[i].start_date = chunks[i].start_datetime
                /\ rows[i].end_date = chunks[i].end_datetime
                /\ rows[i].reconstruction_error = errors[i].value
            /\ \A i, j \in DOMAIN rows :
                i < j => /\ rows[i].end_index < rows[j].start_index
                         /\ rows[i].end_date <= rows[j].start_date

C9_Witness ==
    /\ CalculateReturned
    /\ Len(result.data.rows) > 2
    /\ \E i, j \in DOMAIN result.data.rows :
           result.data.rows[i].reconstruction_error # result.data.rows[j].reconstruction_error

(* C10: fit overwrites every artifact: the calculator after a fit that     *)
(* returns is the calculator a first fit on the same dataset gives.        *)
C10_RefitOverwritesAll ==
    (last.op = "fit" /\ last.raised = NoException) =>
        calc = _fit(__init__(calc.feature_column_names.container, None, None).self,
                    last.data).self

(* C11: fit derives the thresholds from chunks the chunker makes under    *)
(* the same minimum chunk size (that of the feature count) and the same    *)
(* column and timestamp arguments as the chunks calculate scores.          *)
C11_SameChunkPolicy ==
    (last.op = "fit" /\ last.raised = NoException) =>
        /\ thresholds_split_arguments(calc) = calculate_split_arguments(calc)
        /\ thresholds_split_arguments(calc).minimum_chunk_size
               = IntArg(_minimum_chunk_size(feature_column_names))

(* C12: plot(kind='drift'), with plot_reference false or true, leaves    *)
(* every cell of the result's table and every cell of the calculator's     *)
(* reference snapshot unchanged.                                           *)
C12_PlotReadsOnly ==
    [][(last'.op = "plot" /\ last'.kind = "drift")
       => (/\ result' = result
           /\ calc'.previous_reference_results = calc.previous_reference_results)]_vars

(* C15: plot with a kind other than 'drift' raises the invalid-argument    *)
(* error naming the kind requested and changes neither the result table    *)
(* nor the calculator; kind 'drift' is not rejected.                       *)
C15_OnlyDriftKind ==
    [][(last'.op = "plot")
       => IF last'.kind # "drift"
          THEN /\ last'.raised = Raise("InvalidArgumentsException",
                                       <<"unknown plot kind", last'.kind>>)
               /\ result' = result
               /\ calc' = calc
          ELSE last'.raised.type # "InvalidArgumentsException"]_vars

C15_Witness ==
    /\ last.op = "plot"
    /\ last.kind # "drift"
    /\ last.raised.type = "InvalidArgumentsException"
    /\ \E i \in DOMAIN result.data.rows : result.data.rows[i].period = "reference"

(* C13: a categorical imputer given by the caller whose strategy is      *)
(* neither 'most_frequent' nor 'constant' makes the constructor raise, so  *)
(* no calculator exists; a continuous SimpleImputer is accepted whatever   *)
(* its strategy; without imputers the defaults are most_frequent and mean. *)
C13_ImputersCheckedAtConstruction ==
    last.op = "__init__" =>
        LET given == last.data
            categorical_ok ==
                \/ given.imputer_categorical = None
                \/ /\ IsSimpleImputer(given.imputer_categorical)
                   /\ given.imputer_categorical.strategy \in {"most_frequent", "constant"}
        IN  /\ (/\ given.imputer_categorical # None
                /\ IsSimpleImputer(given.imputer_categorical)
                /\ given.imputer_categorical.strategy \notin {"most_frequent", "constant"})
               => (last.raised.type = "ValueError" /\ calc = None)
            /\ (/\ categorical_ok
                /\ given.imputer_continuous # None
                /\ IsSimpleImputer(given.imputer_continuous))
               => (/\ last.raised = NoException
                   /\ calc # None
                   /\ calc._imputer_continuous = given.imputer_continuous)
            /\ (categorical_ok /\ given.imputer_categorical # None /\ calc # None)
               => calc._imputer_categorical = given.imputer_categorical
            /\ (given.imputer_categorical = None /\ given.imputer_continuous = None)
               => (/\ last.raised = NoException
                   /\ calc # None
                   /\ calc._imputer_categorical = SimpleImputer("most_frequent")
                   /\ calc._imputer_continuous = SimpleImputer("mean"))

C13_Witness ==
    /\ last.op = "__init__"
    /\ IsSimpleImputer(last.data.imputer_categorical)
    /\ last.data.imputer_categorical.strategy = "median"
    /\ IsSimpleImputer(last.data.imputer_continuous)
    /\ last.data.imputer_continuous.strategy = "most_frequent"
    /\ last.raised.type = "ValueError"
    /\ calc = None

\* the reconstruction error of a batch of rows, scored with the artifacts and
\* the feature split the calculator holds
ReconstructionErrorOf(batch) ==
    _calculate_reconstruction_error_for_data(
        feature_column_names,
        calc.categorical_feature_column_names, calc.continuous_feature_column_names,
        batch, calc._encoder, calc._scaler, calc._pca,
        calc._imputer_categorical, calc._imputer_continuous)

(* C14: with the artifacts of a fit, the reconstruction-error function     *)
(* returns one scalar for a batch of exactly one row, and fails with the   *)
(* data-validation error for a batch without rows.                         *)
C14_BatchOfOneOrNone ==
    (last.op = "fit" /\ last.raised = NoException) =>
        /\ \A i \in DOMAIN reference.rows :
               /\ ReconstructionErrorOf(<<reference.rows[i]>>).raised = NoException
               /\ ReconstructionErrorOf(<<reference.rows[i]>>).value >= 0
        /\ ReconstructionErrorOf(<<>>).raised.type = "InvalidArgumentsException"

\* the dataset has rows and the target column
ValidTargets(data) == data.rows # <<>> /\ y_true \in data.columns

\* some target of the rows is not missing
SomeTarget(rows) == \E i \in DOMAIN rows : rows[i].y # NaN

TargetChunksOf(data) ==
    TargetChunker_split(data, <<y_true, "NML_TARGET_INCOMPLETE">>, TargetMinimumChunkSize,
                        timestamp_column_name)

(* C16: a chunk whose targets have more than two distinct values does not  *)
(* make the calculation fail: the call returns (given that the reference   *)
(* data and every chunk hold a target at all), a warning is emitted, the   *)
(* chunk has its row and the row's metric_target_drift is not a number;    *)
(* for numeric targets of at most two distinct values metric_target_drift  *)
(* is the mean of the chunk's targets.                                     *)
C16_NonBinaryTargetsWarn ==
    (/\ last.op = "calculate"
     /\ ValidTargets(last.data)
     /\ calc.previous_reference_data # None
     /\ SomeTarget(calc.previous_reference_data.rows)
     /\ \A i \in DOMAIN TargetChunksOf(last.data) : SomeTarget(TargetChunksOf(last.data)[i].data))
    => /\ last.raised = NoException
       /\ Len(result.data.rows) = Len(TargetChunksOf(last.data))
       /\ \A i \in DOMAIN result.data.rows :
            LET targets == Series(last.data.dtype, TargetChunksOf(last.data)[i].data)
                distinct == {targets.values[j] : j \in DOMAIN targets.values} \ {NaN}
            IN  /\ result.data.rows[i].key = TargetChunksOf(last.data)[i].key
                /\ Cardinality(distinct) > 2 =>
                       /\ result.data.rows[i].metric_target_drift = NotANumber
                       /\ \E w \in result.warnings : w.nunique = Cardinality(distinct)
                /\ (Cardinality(distinct) <= 2 /\ targets.dtype = "float64") =>
                       /\ result.data.rows[i].metric_target_drift.den
                              = Cardinality({j \in DOMAIN targets.values : targets.values[j] # NaN})
                       /\ result.data.rows[i].metric_target_drift.num
                              = SeqSum([j \in DOMAIN targets.values |->
                                            IF targets.values[j] = NaN THEN 0 ELSE targets.values[j]])

C16_Witness ==
    /\ last.op = "calculate"
    /\ last.raised = NoException
    /\ last.data # reference
    /\ \E i, k \in DOMAIN result.data.rows :
           /\ result.data.rows[i].metric_target_drift = NotANumber
           /\ result.data.rows[k].metric_target_drift.den > 0
    /\ \E w \in result.warnings : w.nunique > 2

(* C19: calculate on a target-distribution calculator that no fit has      *)
(* fitted raises CalculatorNotFittedException for every dataset with rows  *)
(* and the target column; a fit that raises leaves previous_reference_data *)
(* and previous_reference_results unset, so calculate still raises it.     *)
C19_FailedFitLeavesUnfitted ==
    reference = None =>
        /\ (last.op = "fit" /\ last.raised # NoException) =>
               /\ calc.previous_reference_data = None
               /\ calc.previous_reference_results = None
        /\ (last.op = "calculate" /\ ValidTargets(last.data)) =>
               last.raised = NotFitted

\* the calculator a first fit on the reference dataset gives
FreshlyFitted == _fit(__init__("ndarray", None, None).self, reference).self

\* a table with the period column left out of the comparison
WithoutPeriod(table) == IF table = None THEN None ELSE SetPeriod(table, "")

(* C18: after any sequence of fit, calculate and plot calls, failed ones   *)
(* included, the encoder, the scaler, the reduction model, the two         *)
(* thresholds and the reference snapshot are all unset or all set, and     *)
(* when set they and every fitted imputer derive from one reference        *)
(* dataset, the one of the last fit that returned.                         *)
C18_FittedAllOrNothing ==
    /\ \/ /\ calc._encoder = None /\ calc._scaler = None /\ calc._pca = None
          /\ calc._upper_alert_threshold = None /\ calc._lower_alert_threshold = None
          /\ calc.previous_reference_results = None
       \/ /\ calc._encoder # None /\ calc._scaler # None /\ calc._pca # None
          /\ calc._upper_alert_threshold # None /\ calc._lower_alert_threshold # None
          /\ calc.previous_reference_results # None
    /\ (calc._encoder # None) = Fitted
    /\ Fitted =>
        /\ calc._encoder = FreshlyFitted._encoder
        /\ calc._scaler = FreshlyFitted._scaler
        /\ calc._pca = FreshlyFitted._pca
        /\ calc._upper_alert_threshold = FreshlyFitted._upper_alert_threshold
        /\ calc._lower_alert_threshold = FreshlyFitted._lower_alert_threshold
        /\ WithoutPeriod(calc.previous_reference_results)
               = WithoutPeriod(FreshlyFitted.previous_reference_results)
        /\ calc._imputer_categorical.fitted =>
               calc._imputer_categorical = FreshlyFitted._imputer_categorical
        /\ calc._imputer_continuous.fitted =>
               calc._imputer_continuous = FreshlyFitted._imputer_continuous

====
